---- MODULE Spec2Model ----
(***************************************************************************)
(* Payment transaction processing and reconciliation of chuopay-backend:   *)
(* STK push initiation (contributions/mpesa_views.py, mpesa_service.py),   *)
(* the provider callback, the Celery status-check task and the two sweeps  *)
(* (contributions/tasks.py), over the ledger rows StudentContribution and  *)
(* PaymentHistory (contributions/models.py).                               *)
(*                                                                         *)
(* Spec     : every handler runs to completion before the next starts.     *)
(* SpecRace : the callback handler and the status-check task run as        *)
(*            workers whose database reads and writes interleave (Django   *)
(*            autocommit, no select_for_update, no transaction.atomic).    *)
(***************************************************************************)
EXTENDS Integers, Sequences, FiniteSets, Bags, TLC

VARIABLES contribs, txns, queue, now, last, wk

vars == <<contribs, txns, queue, now, last, wk>>

(***************************************************************************)
(* Bounds of the model.                                                    *)
(***************************************************************************)
NumContribs == 1        \* StudentContribution rows
MaxTxns == 2            \* PaymentHistory rows ever created (SpecRace, SpecRequests)
MaxPolled == 1          \* PaymentHistory rows ever created (Spec)
AmountRequired == 2     \* amount_required of every contribution
MaxPaid == 4            \* cap on amount_paid (repeated credits are unbounded)
MaxQueue == 4           \* cap on outstanding Celery messages
MaxTime == 25           \* last instant of the clock, in hours
MaxPhoneLen == 4        \* longest enumerated phone string
DueDate == 1            \* due_date of the contribution event, in hours
ResultCancelled == 1032 \* a provider result code other than 0 and 1

(***************************************************************************)
(* Program constants.                                                      *)
(***************************************************************************)
max_retries == 3            \* @shared_task(bind=True, max_retries=3)
InitialCountdown == 120     \* apply_async(countdown=120)
BackoffBase == 60           \* countdown=60 * (2 ** retries)
StaleHours == 24            \* timedelta(hours=24)
RetryHours == 1             \* timedelta(hours=1)
ResultSuccess == 0          \* result_code == 0
ResultFailed == 1           \* result_code == 1

None == 0 - 1               \* a null DateTimeField

Contribs == 1..NumContribs
ResultCodes == {ResultSuccess, ResultFailed, ResultCancelled}
\* Variant: a cancelled row is not taken as processed.
TerminalNoCancelled == {"completed", "failed"}

Terminal == {"completed", "failed", "cancelled"}

Receipt == "MPESA123456"
Workers == {"w1", "w2"}

\* Instants at which operations are observed: the hours of the retry window
\* and the hours past the stale cutoff.
TimePoints == {t \in 0..MaxTime : t <= RetryHours \/ t > StaleHours}

TxnIds == 1..Len(txns)

NewPayment(cid, amount, ext, t) ==
    [contribution |-> cid, amount |-> amount, payment_method |-> "mpesa_stk",
     status |-> "pending", external_id |-> ext, external_status |-> "",
     transaction_id |-> "checkout", processed_at |-> None, created_at |-> t]

NewContribution ==
    [amount_required |-> AmountRequired, amount_paid |-> 0,
     payment_status |-> "pending", confirmed |-> FALSE]

\* A worker (a request thread or a Celery worker) between two handlers.
Idle == [pc |-> "idle", kind |-> "none", id |-> 0, code |-> 0,
         inst |-> NewPayment(0, 0, 0, 0), old_amount |-> 0,
         cinst |-> NewContribution, pre_status |-> "none", base |-> 0]

\* The last operation that ran: its name, the row it concerned, its outcome
\* (arg), the provider result code, the task's retry count (for a callback:
\* the CheckoutRequestID of the payload), the request's contribution, phone
\* and amount, and the row's status and the contribution's amount_paid
\* before it ran.
Op(op, id, arg, code, n, cid, phone, amt, pre_status, pre_paid) ==
    [op |-> op, id |-> id, arg |-> arg, code |-> code, n |-> n, cid |-> cid,
     phone |-> phone, amt |-> amt, pre_status |-> pre_status,
     pre_paid |-> pre_paid]

NoOp == Op("init", 0, "", 0, 0, 0, "", 0, "none", 0)

(***************************************************************************)
(* ContributionEvent.is_overdue                                            *)
(***************************************************************************)
is_overdue(t) == t > DueDate

(***************************************************************************)
(* StudentContribution.update_payment_status (the row is saved by caller   *)
(* of this operator: the method ends with self.save()).                    *)
(***************************************************************************)
\* Variant: partial is tested before paid.
update_payment_status_partial_first(c, t) ==
    [c EXCEPT !.payment_status =
        IF c.confirmed THEN "confirmed"
        ELSE IF c.amount_paid > 0 THEN "partial"
        ELSE IF c.amount_paid >= c.amount_required THEN "paid"
        ELSE IF is_overdue(t) THEN "overdue"
        ELSE "pending"]

update_payment_status(c, t) ==
    [c EXCEPT !.payment_status =
        IF c.confirmed THEN "confirmed"
        ELSE IF c.amount_paid >= c.amount_required THEN "paid"
        ELSE IF c.amount_paid > 0 THEN "partial"
        ELSE IF is_overdue(t) THEN "overdue"
        ELSE "pending"]

(***************************************************************************)
(* PaymentHistory.save of an existing row `id` with the in-memory instance *)
(* `inst`: reads the stored amount, writes the row, then adjusts and saves *)
(* the contribution. db is [t |-> rows, c |-> contributions].              *)
(***************************************************************************)
\* Variant: the hook adds the amount of a completed row without taking the
\* stored amount off.
HookAmountNoOld(c, inst, old_amount) ==
    IF inst.status = "completed"
    THEN [c EXCEPT !.amount_paid = c.amount_paid + inst.amount]
    ELSE c

HookAmount(c, inst, old_amount) ==
    IF inst.status = "completed"
    THEN [c EXCEPT !.amount_paid = c.amount_paid - old_amount + inst.amount]
    ELSE c

\* Variant: the hook replaces amount_paid by the saved amount.
PaymentHistorySaveOverwrites(db, id, inst, t) ==
    LET c0 == db.c[inst.contribution]
        c1 == IF inst.status = "completed"
              THEN [c0 EXCEPT !.amount_paid = inst.amount] ELSE c0
    IN  [t |-> [db.t EXCEPT ![id] = inst],
         c |-> [db.c EXCEPT ![inst.contribution] = update_payment_status(c1, t)]]

PaymentHistorySave(db, id, inst, t) ==
    LET old_amount == db.t[id].amount
        rows == [db.t EXCEPT ![id] = inst]
        c0 == db.c[inst.contribution]
        c1 == update_payment_status(HookAmount(c0, inst, old_amount), t)
    IN  [t |-> rows, c |-> [db.c EXCEPT ![inst.contribution] = c1]]

(***************************************************************************)
(* PaymentHistory.save of a new row (PaymentHistory.objects.create).       *)
(***************************************************************************)
\* Variant: a new row is credited whatever its status.
PaymentHistoryCreateCreditsAll(db, inst, t) ==
    LET c0 == db.c[inst.contribution]
        c1 == [c0 EXCEPT !.amount_paid = c0.amount_paid + inst.amount]
    IN  [t |-> Append(db.t, inst),
         c |-> [db.c EXCEPT ![inst.contribution] = update_payment_status(c1, t)]]

PaymentHistoryCreate(db, inst, t) ==
    LET c0 == db.c[inst.contribution]
        c1 == IF inst.status = "completed"
              THEN [c0 EXCEPT !.amount_paid = c0.amount_paid + inst.amount]
              ELSE c0
    IN  [t |-> Append(db.t, inst),
         c |-> [db.c EXCEPT ![inst.contribution] = update_payment_status(c1, t)]]

(***************************************************************************)
(* The lines that follow payment_history.save() in both success branches:  *)
(*   contribution = payment_history.contribution                           *)
(*   contribution.amount_paid += payment_history.amount                    *)
(*   contribution.save()                                                   *)
(* The contribution is the instance the save hook loaded and saved.        *)
(***************************************************************************)
CreditContribution(db, inst) ==
    [db EXCEPT !.c[inst.contribution].amount_paid = @ + inst.amount]

(***************************************************************************)
(* The field assignments of each branch of process_callback and            *)
(* check_mpesa_payment_status, applied to the loaded instance.             *)
(***************************************************************************)
CallbackSuccessFields(row, t) ==
    [row EXCEPT !.status = "completed", !.external_status = "success",
                !.transaction_id = Receipt, !.processed_at = t]

CallbackFailureFields(row, t) ==
    [row EXCEPT !.status = "failed", !.external_status = "failed",
                !.processed_at = t]

PollSuccessFields(row, t) ==
    [row EXCEPT !.status = "completed", !.external_status = "success",
                !.processed_at = t]

PollFailureFields(row, t) ==
    [row EXCEPT !.status = "failed", !.external_status = "failed",
                !.processed_at = t]

\* Variant: exhaustion is recorded like a provider-confirmed failure.
PollTimeoutFieldsAsFailure(row, t) ==
    [row EXCEPT !.status = "failed", !.external_status = "failed",
                !.processed_at = t]

PollTimeoutFields(row, t) ==
    [row EXCEPT !.status = "failed", !.external_status = "timeout",
                !.processed_at = t]

(***************************************************************************)
(* The branches run to completion.                                         *)
(***************************************************************************)
CallbackSuccess(db, id, t) ==
    LET inst == CallbackSuccessFields(db.t[id], t)
    IN  CreditContribution(PaymentHistorySave(db, id, inst, t), inst)

\* Variant: the failure branch credits the contribution as the success
\* branch does.
CallbackFailureCredits(db, id, t) ==
    LET inst == CallbackFailureFields(db.t[id], t)
    IN  CreditContribution(PaymentHistorySave(db, id, inst, t), inst)

CallbackFailure(db, id, t) ==
    PaymentHistorySave(db, id, CallbackFailureFields(db.t[id], t), t)

PollSuccess(db, id, t) ==
    LET inst == PollSuccessFields(db.t[id], t)
    IN  CreditContribution(PaymentHistorySave(db, id, inst, t), inst)

PollFailure(db, id, t) ==
    PaymentHistorySave(db, id, PollFailureFields(db.t[id], t), t)

PollTimeout(db, id, t) ==
    PaymentHistorySave(db, id, PollTimeoutFields(db.t[id], t), t)

DB == [t |-> txns, c |-> contribs]

Task(id, retries, countdown) ==
    [id |-> id, retries |-> retries, countdown |-> countdown]

\* Variant: the message is sent twice.
EnqueueTwice(q, task) == q (+) SetToBag({task}) (+) SetToBag({task})

Enqueue(q, task) == q (+) SetToBag({task})

Dequeue(q, task) == q (-) SetToBag({task})

\* Variant: the delay grows by 60 s per attempt.
RetryCountdownLinear(retries) == BackoffBase * (retries + 1)

RetryCountdown(retries) == BackoffBase * (2 ^ retries)

(***************************************************************************)
(* Initial state: the contributions exist, unpaid; no payment rows.        *)
(***************************************************************************)
Init ==
    /\ contribs = [c \in Contribs |-> NewContribution]
    /\ txns = <<>>
    /\ queue = EmptyBag
    /\ now = 0
    /\ last = NoOp
    /\ wk = [w \in Workers |-> Idle]

Quiet == \A w \in DOMAIN wk : wk[w].pc = "idle"

(***************************************************************************)
(* initiate_stk_push (the view): the validations, in the order of the      *)
(* code, give the error response or "proceed".                             *)
(***************************************************************************)
\* Variant: the comparison also refuses the exact balance.
ExceedsBalanceOrEqual(amount, c) == amount >= c.amount_required - c.amount_paid

ExceedsBalance(amount, c) == amount > c.amount_required - c.amount_paid

InitiateValidation(cid, phone, amount) ==
    IF cid = 0 \/ phone = "" \/ amount = 0 THEN "missing_fields"
    ELSE IF cid \notin Contribs THEN "not_found"
    ELSE IF phone = "invalid" THEN "invalid_phone"
    ELSE IF amount <= 0 THEN "invalid_amount"
    ELSE IF ExceedsBalance(amount, contribs[cid]) THEN "exceeds_balance"
    ELSE "proceed"

PrePaid(cid) == IF cid \in Contribs THEN contribs[cid].amount_paid ELSE 0

\* A request the view answers with an error before the service is called.
InitiateRejected(cid, phone, amount) ==
    /\ Quiet
    /\ InitiateValidation(cid, phone, amount) # "proceed"
    /\ last' = Op("initiate", 0, InitiateValidation(cid, phone, amount), 0, 0,
                  cid, phone, amount, "none", PrePaid(cid))
    /\ UNCHANGED <<contribs, txns, queue, now, wk>>

\* MPESAService.initiate_stk_push: the gateway refuses the request or is
\* unreachable (raise_for_status / RequestException): no row is created.
InitiateGatewayError(cid, phone, amount) ==
    /\ Quiet
    /\ InitiateValidation(cid, phone, amount) = "proceed"
    /\ last' = Op("initiate", 0, "stk_failed", 0, 0,
                  cid, phone, amount, "none", PrePaid(cid))
    /\ UNCHANGED <<contribs, txns, queue, now, wk>>

\* The gateway accepts: the pending row is created and the first status
\* check is scheduled. scheduled = FALSE: apply_async raises (broker down)
\* after the row was created, and the service reports an error.
\* checkout is data.get('CheckoutRequestID', '') of the gateway's response.
NoReference == 0            \* the empty string of a missing CheckoutRequestID

InitiateResponse(cid, phone, amount, scheduled, checkout) ==
    /\ Quiet
    /\ InitiateValidation(cid, phone, amount) = "proceed"
    /\ Len(txns) < MaxTxns
    /\ BagCardinality(queue) < MaxQueue
    /\ LET id == Len(txns) + 1
           db == PaymentHistoryCreate(DB, NewPayment(cid, amount, checkout, now), now)
       IN  /\ txns' = db.t
           /\ contribs' = db.c
           /\ queue' = IF scheduled
                       THEN Enqueue(queue, Task(id, 0, InitialCountdown))
                       ELSE queue
           /\ last' = Op("initiate", id, IF scheduled THEN "ok" ELSE "stk_failed",
                         0, 0, cid, phone, amount, "none", PrePaid(cid))
    /\ UNCHANGED <<now, wk>>

\* The gateway answers every request with a fresh CheckoutRequestID.
InitiateAccepted(cid, phone, amount, scheduled) ==
    InitiateResponse(cid, phone, amount, scheduled, Len(txns) + 1)

initiate_stk_push ==
    \E cid \in 0..(NumContribs + 1), phone \in {"valid", "invalid", ""},
       amount \in (0 - 1)..(AmountRequired + 1) :
        \/ InitiateRejected(cid, phone, amount)
        \/ InitiateGatewayError(cid, phone, amount)
        \/ \E scheduled \in BOOLEAN : InitiateAccepted(cid, phone, amount, scheduled)

(***************************************************************************)
(* MPESAService.process_callback run to completion.                        *)
(***************************************************************************)
\* Variant: a correlation id that matches no row falls back to the newest row.
MatchesOrNewest(ext) ==
    LET exact == {i \in TxnIds : txns[i].external_id = ext
                                 /\ txns[i].payment_method = "mpesa_stk"}
    IN  IF exact = {} /\ txns # <<>> THEN {Len(txns)} ELSE exact

\* PaymentHistory.objects.get(external_id=..., payment_method='mpesa_stk')
Matches(ext) ==
    {i \in TxnIds : txns[i].external_id = ext /\ txns[i].payment_method = "mpesa_stk"}

process_callback(ext, code) ==
    /\ Quiet
    /\ \E id \in Matches(ext) :
        /\ Cardinality(Matches(ext)) = 1
        /\ code = ResultSuccess =>
              contribs[txns[id].contribution].amount_paid + txns[id].amount <= MaxPaid
        /\ LET db == IF code = ResultSuccess
                     THEN CallbackSuccess(DB, id, now)
                     ELSE CallbackFailure(DB, id, now)
           IN  /\ txns' = db.t
               /\ contribs' = db.c
               /\ last' = Op("callback", id, "processed", code, ext,
                             txns[id].contribution, "", txns[id].amount,
                             txns[id].status,
                             contribs[txns[id].contribution].amount_paid)
    /\ UNCHANGED <<queue, now, wk>>

\* DoesNotExist (or MultipleObjectsReturned): ValidationError, nothing written.
CallbackUnmatched(ext, code) ==
    /\ Quiet
    /\ Cardinality(Matches(ext)) # 1
    /\ last' = Op("callback", 0, "not_found", code, ext, 0, "", 0, "none", 0)
    /\ UNCHANGED <<contribs, txns, queue, now, wk>>

\* The row is found and its save raises (a database error): the handler's
\* "except Exception" turns it into ValidationError; nothing is written.
CallbackProcessingError(ext, code) ==
    /\ Quiet
    /\ Cardinality(Matches(ext)) = 1
    /\ last' = Op("callback", 0, "processing_error", code, ext, 0, "", 0, "none", 0)
    /\ UNCHANGED <<contribs, txns, queue, now, wk>>

\* json.loads raises JSONDecodeError: the service is not called.
CallbackMalformed ==
    /\ Quiet
    /\ last' = Op("callback", 0, "invalid_json", 0, 0, 0, "", 0, "none", 0)
    /\ UNCHANGED <<contribs, txns, queue, now, wk>>

\* The response of the view mpesa_callback for each outcome: process_callback
\* returned (success or failed payment alike), or JSONDecodeError, or
\* ValidationError.
mpesa_callback_response(outcome) ==
    IF outcome = "processed"
    THEN [status |-> 200, ResultCode |-> 0, ResultDesc |-> "Success"]
    ELSE IF outcome = "invalid_json"
    THEN [status |-> 400, ResultCode |-> 1, ResultDesc |-> "Invalid JSON"]
    ELSE [status |-> 400, ResultCode |-> 1, ResultDesc |-> outcome]

mpesa_callback ==
    \/ \E ext \in 1..(MaxTxns + 1), code \in ResultCodes :
            process_callback(ext, code)
    \/ \E ext \in 1..(MaxTxns + 1), code \in ResultCodes :
            CallbackUnmatched(ext, code)
    \/ \E ext \in 1..(MaxTxns + 1), code \in ResultCodes :
            CallbackProcessingError(ext, code)
    \/ CallbackMalformed

(***************************************************************************)
(* check_mpesa_payment_status run to completion on one queued message.     *)
(* outcome is what MPESAService.check_payment_status does: it returns a    *)
(* result code, raises ValidationError (transport error), or the task      *)
(* fails with another exception.                                           *)
(***************************************************************************)
PollOp(task, arg, code) ==
    Op("poll", task.id, arg, code, task.retries, txns[task.id].contribution,
       "", txns[task.id].amount, txns[task.id].status,
       contribs[txns[task.id].contribution].amount_paid)

\* Skip if already processed.
PollSkip(task) ==
    /\ Quiet
    /\ BagIn(task, queue)
    /\ txns[task.id].status \in Terminal
    /\ queue' = Dequeue(queue, task)
    /\ last' = PollOp(task, "skipped", 0)
    /\ UNCHANGED <<contribs, txns, now, wk>>

PollResult(task, code) ==
    /\ Quiet
    /\ BagIn(task, queue)
    /\ txns[task.id].status \notin Terminal
    /\ code \in {ResultSuccess, ResultFailed}
    /\ code = ResultSuccess =>
          contribs[txns[task.id].contribution].amount_paid + txns[task.id].amount <= MaxPaid
    /\ LET db == IF code = ResultSuccess
                 THEN PollSuccess(DB, task.id, now)
                 ELSE PollFailure(DB, task.id, now)
       IN  /\ txns' = db.t
           /\ contribs' = db.c
    /\ queue' = Dequeue(queue, task)
    /\ last' = PollOp(task, "processed", code)
    /\ UNCHANGED <<now, wk>>

\* Still pending with retries left: self.retry() sends the retry message
\* and raises Retry inside the try block; Retry is an Exception, so the
\* generic handler runs and calls self.retry() a second time.
PollRetry(task, code) ==
    /\ Quiet
    /\ BagIn(task, queue)
    /\ txns[task.id].status \notin Terminal
    /\ code \notin {ResultSuccess, ResultFailed}
    /\ task.retries < max_retries
    /\ BagCardinality(queue) + 1 <= MaxQueue
    /\ LET next == Task(task.id, task.retries + 1, RetryCountdown(task.retries))
       IN  queue' = Enqueue(Enqueue(Dequeue(queue, task), next), next)
    /\ last' = PollOp(task, "retry", code)
    /\ UNCHANGED <<contribs, txns, now, wk>>

\* Still pending, max retries reached: mark as failed, timeout.
PollExhausted(task, code) ==
    /\ Quiet
    /\ BagIn(task, queue)
    /\ txns[task.id].status \notin Terminal
    /\ code \notin {ResultSuccess, ResultFailed}
    /\ task.retries >= max_retries
    /\ LET db == PollTimeout(DB, task.id, now)
       IN  /\ txns' = db.t
           /\ contribs' = db.c
    /\ queue' = Dequeue(queue, task)
    /\ last' = PollOp(task, "timeout", code)
    /\ UNCHANGED <<now, wk>>

\* check_payment_status raises ValidationError (RequestException): the
\* task logs and returns.
PollTransportError(task) ==
    /\ Quiet
    /\ BagIn(task, queue)
    /\ txns[task.id].status \notin Terminal
    /\ queue' = Dequeue(queue, task)
    /\ last' = PollOp(task, "transport_error", 0)
    /\ UNCHANGED <<contribs, txns, now, wk>>

\* Any other exception before a write: one retry while retries remain.
PollException(task) ==
    /\ Quiet
    /\ BagIn(task, queue)
    /\ txns[task.id].status \notin Terminal
    /\ queue' = IF task.retries < max_retries
                THEN Enqueue(Dequeue(queue, task),
                             Task(task.id, task.retries + 1, RetryCountdown(task.retries)))
                ELSE Dequeue(queue, task)
    /\ last' = PollOp(task, "exception", 0)
    /\ UNCHANGED <<contribs, txns, now, wk>>

check_mpesa_payment_status ==
    \/ \E task \in BagToSet(queue) : PollSkip(task)
    \/ \E task \in BagToSet(queue), code \in ResultCodes : PollResult(task, code)
    \/ \E task \in BagToSet(queue), code \in ResultCodes : PollRetry(task, code)
    \/ \E task \in BagToSet(queue), code \in ResultCodes : PollExhausted(task, code)
    \/ \E task \in BagToSet(queue) : PollTransportError(task)
    \/ \E task \in BagToSet(queue) : PollException(task)

(***************************************************************************)
(* cleanup_pending_payments: every pending mpesa_stk row created more than *)
(* 24 hours ago is set to cancelled and saved, one after the other.        *)
(***************************************************************************)
\* Variant: the selection does not look at the payment method.
StaleIdsAnyMethod(rows, t) ==
    {i \in DOMAIN rows : /\ rows[i].status = "pending"
                         /\ rows[i].created_at < t - StaleHours}

StaleIds(rows, t) ==
    {i \in DOMAIN rows : /\ rows[i].status = "pending"
                         /\ rows[i].payment_method = "mpesa_stk"
                         /\ rows[i].created_at < t - StaleHours}

Lowest(S) == CHOOSE i \in S : \A j \in S : i <= j

RECURSIVE CancelEach(_, _, _)
CancelEach(db, ids, t) ==
    IF ids = {} THEN db
    ELSE LET id == Lowest(ids)
             inst == [db.t[id] EXCEPT !.status = "cancelled"]
         IN  CancelEach(PaymentHistorySave(db, id, inst, t), ids \ {id}, t)

cleanup_pending_payments ==
    /\ Quiet
    /\ LET ids == StaleIds(txns, now)
           db == CancelEach(DB, ids, now)
       IN  /\ ids # {}
           /\ txns' = db.t
           /\ contribs' = db.c
           /\ last' = Op("cleanup", 0, "swept", 0, Cardinality(ids), 0, "", 0, "none", 0)
    /\ UNCHANGED <<queue, now, wk>>

(***************************************************************************)
(* retry_failed_payments: failed mpesa_stk rows created within the last    *)
(* hour whose external_status is timeout or network_error are reset to     *)
(* pending and a status check is queued for each (.delay: no countdown).   *)
(***************************************************************************)
\* Variant: every recently created failed row is selected, whatever the
\* reason of the failure.
RetryableIdsAnyReason(rows, t) ==
    {i \in DOMAIN rows : /\ rows[i].status = "failed"
                         /\ rows[i].payment_method = "mpesa_stk"
                         /\ rows[i].created_at >= t - RetryHours}

\* Variant: a timed-out row is selected however old it is.
RetryableIdsAnyAge(rows, t) ==
    {i \in DOMAIN rows : /\ rows[i].status = "failed"
                         /\ rows[i].payment_method = "mpesa_stk"
                         /\ rows[i].external_status \in {"timeout", "network_error"}}

RetryableIds(rows, t) ==
    {i \in DOMAIN rows : /\ rows[i].status = "failed"
                         /\ rows[i].payment_method = "mpesa_stk"
                         /\ rows[i].created_at >= t - RetryHours
                         /\ rows[i].external_status \in {"timeout", "network_error"}}

RECURSIVE RetryEach(_, _, _)
RetryEach(db, ids, t) ==
    IF ids = {} THEN db
    ELSE LET id == Lowest(ids)
             inst == [db.t[id] EXCEPT !.status = "pending",
                                      !.external_status = "retrying"]
         IN  RetryEach(PaymentHistorySave(db, id, inst, t), ids \ {id}, t)

retry_failed_payments ==
    /\ Quiet
    /\ LET ids == RetryableIds(txns, now)
           db == RetryEach(DB, ids, now)
       IN  /\ ids # {}
           /\ BagCardinality(queue) + Cardinality(ids) <= MaxQueue
           /\ txns' = db.t
           /\ contribs' = db.c
           /\ queue' = queue (+) SetToBag({Task(i, 0, 0) : i \in ids})
           /\ last' = Op("retry_sweep", 0, "swept", 0, Cardinality(ids), 0, "", 0, "none", 0)
    /\ UNCHANGED <<now, wk>>

(***************************************************************************)
(* StudentContribution.confirm_payment (manual confirmation).              *)
(***************************************************************************)
confirm_payment(cid) ==
    /\ Quiet
    /\ ~contribs[cid].confirmed
    /\ contribs' = [contribs EXCEPT ![cid].confirmed = TRUE,
                                    ![cid].payment_status = "confirmed"]
    /\ last' = Op("confirm", 0, "confirmed", 0, 0, cid, "", 0, "none",
                  contribs[cid].amount_paid)
    /\ UNCHANGED <<txns, queue, now, wk>>

(***************************************************************************)
(* Time passes: timezone.now() moves to the next observed instant.         *)
(***************************************************************************)
Tick ==
    /\ Quiet
    /\ \E t \in TimePoints :
        /\ t > now
        /\ \A u \in TimePoints : u > now => t <= u
        /\ now' = t
    /\ last' = Op("tick", 0, "", 0, 0, 0, "", 0, "none", 0)
    /\ UNCHANGED <<contribs, txns, queue, wk>>

\* The operations that write the ledger or the queue. A sweep that selects
\* no row and a request that is refused write nothing.
InitiatePayment ==
    \E cid \in Contribs, amount \in 1..AmountRequired, scheduled \in BOOLEAN :
        InitiateAccepted(cid, "valid", amount, scheduled)

Callback == \E ext \in 1..MaxTxns, code \in ResultCodes : process_callback(ext, code)

(***************************************************************************)
(* The same handlers as workers whose database statements interleave.      *)
(* process_callback and check_mpesa_payment_status run under autocommit:   *)
(*   load     payment_history = PaymentHistory.objects.get(...)            *)
(*   row      PaymentHistory.save: read the stored amount, write the row   *)
(*   contrib  self.contribution is loaded; the hook adjusts amount_paid    *)
(*            and update_payment_status computes the status                *)
(*   status   update_payment_status: self.save() writes the contribution   *)
(*   credit   contribution.amount_paid += amount; contribution.save()      *)
(***************************************************************************)
Busy(w, pc) == wk[w].pc = pc

Owner(id) == txns[id].contribution

Load(w, kind, id, code) ==
    [Idle EXCEPT !.pc = "loaded", !.kind = kind, !.id = id, !.code = code,
                 !.inst = txns[id], !.pre_status = txns[id].status,
                 !.base = contribs[Owner(id)].amount_paid]

StartCallback(w, ext, code) ==
    /\ Busy(w, "idle")
    /\ \E id \in Matches(ext) :
        /\ Cardinality(Matches(ext)) = 1
        /\ wk' = [wk EXCEPT ![w] = Load(w, "callback", id, code)]
    /\ UNCHANGED <<contribs, txns, queue, now, last>>

\* The task reads the row; a terminal row ends it. Otherwise the provider
\* is queried and answers with result code 0 or 1.
StartPoll(w, task, code) ==
    /\ Busy(w, "idle")
    /\ BagIn(task, queue)
    /\ code \in {ResultSuccess, ResultFailed}
    /\ queue' = Dequeue(queue, task)
    /\ wk' = [wk EXCEPT ![w] =
                IF txns[task.id].status \in Terminal
                THEN [Load(w, "poll", task.id, code) EXCEPT !.pc = "done"]
                ELSE Load(w, "poll", task.id, code)]
    /\ UNCHANGED <<contribs, txns, now, last>>

BranchFields(kind, code, row, t) ==
    IF kind = "callback"
    THEN IF code = ResultSuccess THEN CallbackSuccessFields(row, t)
                                 ELSE CallbackFailureFields(row, t)
    ELSE IF code = ResultSuccess THEN PollSuccessFields(row, t)
                                 ELSE PollFailureFields(row, t)

SaveRow(w) ==
    /\ Busy(w, "loaded")
    /\ LET inst == BranchFields(wk[w].kind, wk[w].code, wk[w].inst, now)
       IN  /\ txns' = [txns EXCEPT ![wk[w].id] = inst]
           /\ wk' = [wk EXCEPT ![w].pc = "row", ![w].inst = inst,
                               ![w].old_amount = txns[wk[w].id].amount]
    /\ UNCHANGED <<contribs, queue, now, last>>

LoadContribution(w) ==
    /\ Busy(w, "row")
    /\ wk' = [wk EXCEPT ![w].pc = "contrib",
                        ![w].cinst = update_payment_status(
                            HookAmount(contribs[wk[w].inst.contribution],
                                       wk[w].inst, wk[w].old_amount), now)]
    /\ UNCHANGED <<contribs, txns, queue, now, last>>

SaveStatus(w) ==
    /\ Busy(w, "contrib")
    /\ contribs' = [contribs EXCEPT ![wk[w].inst.contribution] = wk[w].cinst]
    /\ wk' = [wk EXCEPT ![w].pc = IF wk[w].code = ResultSuccess
                                  THEN "status" ELSE "done"]
    /\ UNCHANGED <<txns, queue, now, last>>

Credit(w) ==
    /\ Busy(w, "status")
    /\ wk[w].cinst.amount_paid + wk[w].inst.amount <= MaxPaid
    /\ LET c == [wk[w].cinst EXCEPT !.amount_paid = @ + wk[w].inst.amount]
       IN  /\ contribs' = [contribs EXCEPT ![wk[w].inst.contribution] = c]
           /\ wk' = [wk EXCEPT ![w].pc = "done", ![w].cinst = c]
    /\ UNCHANGED <<txns, queue, now, last>>

\* The handler returns.
Finish(w) ==
    /\ Busy(w, "done")
    /\ wk' = [wk EXCEPT ![w] = Idle]
    /\ last' = Op(wk[w].kind, wk[w].id, "returned", wk[w].code, 0,
                  wk[w].inst.contribution, "", wk[w].inst.amount,
                  wk[w].pre_status, wk[w].base)
    /\ UNCHANGED <<contribs, txns, queue, now>>

NextRace ==
    \/ Quiet /\ Len(txns) < MaxPolled /\ InitiatePayment
    \/ \E w \in Workers, ext \in 1..MaxTxns, code \in {ResultSuccess, ResultFailed} :
            StartCallback(w, ext, code)
    \/ \E w \in Workers, task \in BagToSet(queue), code \in {ResultSuccess, ResultFailed} :
            StartPoll(w, task, code)
    \/ \E w \in Workers : SaveRow(w)
    \/ \E w \in Workers : LoadContribution(w)
    \/ \E w \in Workers : SaveStatus(w)
    \/ \E w \in Workers : Credit(w)
    \/ \E w \in Workers : Finish(w)

SpecRace == Init /\ [][NextRace]_vars

(***************************************************************************)
(* Two pending transactions of one contribution, each completed once by a  *)
(* worker (a success callback or a status check with a success result)     *)
(* while the other worker may be running on the other transaction.         *)
(***************************************************************************)
\* The row is pending and no worker is running on it.
Untouched(id) ==
    /\ id \in TxnIds
    /\ txns[id].status = "pending"
    /\ \A w \in Workers : wk[w].pc = "idle" \/ wk[w].id # id

NextRacePair ==
    \/ \E cid \in Contribs : InitiateAccepted(cid, "valid", 1, TRUE)
    \/ \E w \in Workers, ext \in 1..MaxTxns :
            Untouched(ext) /\ StartCallback(w, ext, ResultSuccess)
    \/ \E w \in Workers, task \in BagToSet(queue) :
            Untouched(task.id) /\ StartPoll(w, task, ResultSuccess)
    \/ \E w \in Workers : SaveRow(w)
    \/ \E w \in Workers : LoadContribution(w)
    \/ \E w \in Workers : SaveStatus(w)
    \/ \E w \in Workers : Credit(w)
    \/ \E w \in Workers : Finish(w)

SpecRacePair == Init /\ [][NextRacePair]_vars

(***************************************************************************)
(* MPESAService.format_phone_number. A string is the sequence of its       *)
(* characters.                                                             *)
(***************************************************************************)
Digits == {"0", "1", "2", "3", "4", "5", "6", "7", "8", "9"}

isdigit(ch) == ch \in Digits

startswith(str, prefix) ==
    Len(str) >= Len(prefix) /\ SubSeq(str, 1, Len(prefix)) = prefix

CountryCode == <<"2", "5", "4">>

\* Variant: a leading 0 is kept.
format_phone_number_keep_zero(phone_number) ==
    LET digits == SelectSeq(phone_number, isdigit)
    IN  IF ~startswith(digits, CountryCode) THEN CountryCode \o digits ELSE digits

format_phone_number(phone_number) ==
    LET digits == SelectSeq(phone_number, isdigit)
        no_zero == IF startswith(digits, <<"0">>)
                   THEN CountryCode \o Tail(digits) ELSE digits
        no_plus == IF startswith(no_zero, <<"+">>) THEN Tail(no_zero) ELSE no_zero
    IN  IF ~startswith(no_plus, CountryCode) THEN CountryCode \o no_plus ELSE no_plus

\* The inputs of test_phone_number_formatting and their expected result.
Local0700 == <<"0", "7", "0", "0", "0", "0", "0", "0", "0", "0">>

Plus254700 == <<"+", "2", "5", "4", "7", "0", "0", "0", "0", "0", "0", "0", "0">>

Bare254700 == <<"2", "5", "4", "7", "0", "0", "0", "0", "0", "0", "0", "0">>

Short700 == <<"7", "0", "0", "0", "0", "0", "0", "0", "0">>

TestPhones == {Local0700, Plus254700, Bare254700, Short700}

PhoneAlphabet == {"0", "2", "5", "4", "7", "+"}

RECURSIVE StringsUpTo(_)
StringsUpTo(n) ==
    IF n = 0 THEN {<<>>}
    ELSE LET shorter == StringsUpTo(n - 1)
         IN  shorter \cup {Append(str, ch) : str \in shorter, ch \in PhoneAlphabet}

\* The invalid numbers of test_phone_number_validation.
Digits123 == <<"1", "2", "3">>

LettersAbc == <<"a", "b", "c">>

Short25470 == <<"2", "5", "4", "7", "0", "0", "0", "0", "0", "0", "0">>

Long25470 == <<"2", "5", "4", "7", "0", "0", "0", "0", "0", "0", "0", "0", "0">>

InvalidTestPhones == {Digits123, LettersAbc, Short25470, Long25470}

PhoneInputs == TestPhones \cup InvalidTestPhones \cup StringsUpTo(MaxPhoneLen)

(***************************************************************************)
(* MPESAService.validate_phone_number: the formatted number, or the        *)
(* ValidationError it raises.                                              *)
(***************************************************************************)
PhoneLength == 12

\* Variant: the length is not looked at.
validate_phone_number_any_length(phone_number) ==
    LET formatted_phone == format_phone_number(phone_number)
    IN  IF ~startswith(formatted_phone, CountryCode)
        THEN [raised |-> TRUE, value |-> "Invalid phone number format"]
        ELSE [raised |-> FALSE, value |-> formatted_phone]

validate_phone_number(phone_number) ==
    LET formatted_phone == format_phone_number(phone_number)
    IN  IF ~startswith(formatted_phone, CountryCode)
        THEN [raised |-> TRUE, value |-> "Invalid phone number format"]
        ELSE IF Len(formatted_phone) # PhoneLength
        THEN [raised |-> TRUE, value |-> "Invalid phone number length"]
        ELSE [raised |-> FALSE, value |-> formatted_phone]

\* What the view initiate_stk_push sees of the phone_number of a request:
\* it is missing (empty), or validate_phone_number raises, or it passes.
PhoneClass(phone_number) ==
    IF phone_number = <<>> THEN ""
    ELSE IF validate_phone_number(phone_number).raised THEN "invalid"
    ELSE "valid"

\* A phone string is given, then formatted.
InitPhone ==
    /\ contribs = [c \in Contribs |-> NewContribution]
    /\ txns = <<>>
    /\ queue = EmptyBag
    /\ now = 0
    /\ wk = [w \in Workers |-> Idle]
    /\ last \in {Op("phone_number", 0, <<>>, 0, 0, 0, str, 0, "none", 0) :
                    str \in PhoneInputs}

FormatPhone ==
    /\ last.op = "phone_number"
    /\ last' = [last EXCEPT !.op = "format_phone_number",
                            !.arg = format_phone_number(last.phone)]
    /\ UNCHANGED <<contribs, txns, queue, now, wk>>

ValidatePhone ==
    /\ last.op = "phone_number"
    /\ last' = [last EXCEPT !.op = "validate_phone_number",
                            !.arg = validate_phone_number(last.phone)]
    /\ UNCHANGED <<contribs, txns, queue, now, wk>>

\* The view is called with the phone string.
InitiateWithPhone ==
    /\ last.op = "phone_number"
    /\ \E cid \in 0..(NumContribs + 1), amount \in (0 - 1)..(AmountRequired + 1) :
          \/ InitiateRejected(cid, PhoneClass(last.phone), amount)
          \/ InitiateGatewayError(cid, PhoneClass(last.phone), amount)
          \/ \E scheduled \in BOOLEAN :
                InitiateAccepted(cid, PhoneClass(last.phone), amount, scheduled)

NextPhone ==
    \/ FormatPhone
    \/ ValidatePhone
    \/ InitiateWithPhone

SpecPhone == InitPhone /\ [][NextPhone]_vars

(***************************************************************************)
(* The staff endpoints that write payment rows (contributions/views.py).   *)
(***************************************************************************)
STATUS_CHOICES == {"pending", "completed", "failed", "cancelled", "refunded"}

\* StudentContributionViewSet.confirm_payment: the contribution is confirmed
\* and a completed row of method manual is created for amount_confirmed, or
\* for the contribution's amount_paid when no amount is given (0 here).
ManualPayment(cid, amount, t) ==
    [NewPayment(cid, amount, 0, t) EXCEPT
        !.payment_method = "manual", !.status = "completed",
        !.transaction_id = "", !.processed_at = t]

confirm_payment_view(cid, amount_confirmed) ==
    /\ Quiet
    /\ Len(txns) < MaxTxns
    /\ LET c == [contribs[cid] EXCEPT !.confirmed = TRUE,
                                      !.payment_status = "confirmed"]
           amount == IF amount_confirmed # 0 THEN amount_confirmed
                     ELSE c.amount_paid
           db == PaymentHistoryCreate([t |-> txns, c |-> [contribs EXCEPT ![cid] = c]],
                                      ManualPayment(cid, amount, now), now)
       IN  /\ c.amount_paid + amount <= MaxPaid
           /\ txns' = db.t
           /\ contribs' = db.c
           /\ last' = Op("confirm_view", Len(txns) + 1, "confirmed", 0, 0, cid,
                         "", amount, "none", contribs[cid].amount_paid)
    /\ UNCHANGED <<queue, now, wk>>

\* PaymentHistoryViewSet.update_status: a staff user sets the status of a
\* row to any of STATUS_CHOICES; payment.save() runs the hook.
update_status(id, new_status) ==
    /\ Quiet
    /\ id \in TxnIds
    /\ new_status \in STATUS_CHOICES
    /\ LET db == PaymentHistorySave(DB, id, [txns[id] EXCEPT !.status = new_status], now)
       IN  /\ txns' = db.t
           /\ contribs' = db.c
    /\ last' = Op("update_status", id, new_status, 0, 0, txns[id].contribution,
                  "", txns[id].amount, txns[id].status,
                  contribs[txns[id].contribution].amount_paid)
    /\ UNCHANGED <<queue, now, wk>>

(***************************************************************************)
(* The stale sweep over rows of both origins: push payments and rows       *)
(* written by staff, of any status and age.                                *)
(***************************************************************************)
NextSweep ==
    \/ \E cid \in Contribs, amount \in 1..AmountRequired :
            InitiateAccepted(cid, "valid", amount, TRUE)
    \/ \E cid \in Contribs, amount \in 0..AmountRequired :
            confirm_payment_view(cid, amount)
    \/ \E id \in 1..MaxTxns, new_status \in STATUS_CHOICES :
            update_status(id, new_status)
    \/ cleanup_pending_payments
    \/ Tick

SpecSweep == Init /\ [][NextSweep]_vars

(***************************************************************************)
(* The ledger models used directly, as the tests of contributions/tests.py *)
(* and the staff and parent endpoints use them: rows are created and saved *)
(* with any amount and status, amount_paid is set and the status computed. *)
(***************************************************************************)
\* PaymentHistory.objects.create(contribution, amount, status, ...)
CreatePayment(cid, amount, status) ==
    /\ Quiet
    /\ Len(txns) < MaxTxns
    /\ contribs[cid].amount_paid + amount <= MaxPaid
    /\ LET inst == [NewPayment(cid, amount, Len(txns) + 1, now) EXCEPT !.status = status]
           db == PaymentHistoryCreate(DB, inst, now)
       IN  /\ txns' = db.t
           /\ contribs' = db.c
    /\ last' = Op("create", Len(txns) + 1, status, 0, 0, cid, "", amount, "none",
                  contribs[cid].amount_paid)
    /\ UNCHANGED <<queue, now, wk>>

\* payment.amount = ...; payment.status = ...; payment.save()
SavePayment(id, amount, status) ==
    /\ Quiet
    /\ id \in TxnIds
    /\ LET inst == [txns[id] EXCEPT !.amount = amount, !.status = status]
           db == PaymentHistorySave(DB, id, inst, now)
       IN  /\ db.c[inst.contribution].amount_paid \in 0..MaxPaid
           /\ txns' = db.t
           /\ contribs' = db.c
    /\ last' = Op("save", id, status, 0, 0, txns[id].contribution, "", amount,
                  txns[id].status, contribs[txns[id].contribution].amount_paid)
    /\ UNCHANGED <<queue, now, wk>>

\* StudentContributionViewSet.update_payment: amount_paid is set to the
\* given value and update_payment_status runs.
update_payment(cid, amount_paid) ==
    /\ Quiet
    /\ contribs' = [contribs EXCEPT ![cid] =
                        update_payment_status([@ EXCEPT !.amount_paid = amount_paid], now)]
    /\ last' = Op("update_payment", 0, "updated", 0, 0, cid, "", amount_paid, "none",
                  contribs[cid].amount_paid)
    /\ UNCHANGED <<txns, queue, now, wk>>

NextLedger ==
    \/ \E cid \in Contribs, amount \in 1..AmountRequired, status \in STATUS_CHOICES :
            CreatePayment(cid, amount, status)
    \/ \E id \in 1..MaxTxns, amount \in 1..AmountRequired, status \in STATUS_CHOICES :
            SavePayment(id, amount, status)
    \/ \E cid \in Contribs, amount_paid \in 0..(AmountRequired + 1) :
            update_payment(cid, amount_paid)
    \/ \E cid \in Contribs : confirm_payment(cid)
    \/ Tick

SpecLedger == Init /\ [][NextLedger]_vars

(***************************************************************************)
(* Initiation and callbacks where the gateway's response carries any       *)
(* CheckoutRequestID, or none: the code takes the id as it comes.          *)
(***************************************************************************)
NextProvider ==
    \/ \E cid \in Contribs, amount \in 1..AmountRequired, scheduled \in BOOLEAN,
          checkout \in NoReference..MaxTxns :
            InitiateResponse(cid, "valid", amount, scheduled, checkout)
    \/ \E ext \in NoReference..MaxTxns, code \in ResultCodes :
            process_callback(ext, code)
    \/ \E ext \in NoReference..MaxTxns, code \in ResultCodes :
            CallbackUnmatched(ext, code)

SpecProvider == Init /\ [][NextProvider]_vars

(***************************************************************************)
(* The two HTTP endpoints with every kind of request, refused ones too.    *)
(***************************************************************************)
NextRequests ==
    \/ initiate_stk_push
    \/ mpesa_callback

SpecRequests == Init /\ [][NextRequests]_vars

Next ==
    \/ Len(txns) < MaxPolled /\ InitiatePayment
    \/ Callback
    \/ check_mpesa_payment_status
    \/ cleanup_pending_payments
    \/ retry_failed_payments
    \/ \E cid \in Contribs : confirm_payment(cid)
    \/ Tick

Spec == Init /\ [][Next]_vars

(***************************************************************************)
(* Fair execution: the clock advances, the queued status checks are        *)
(* delivered and the two periodic sweeps run. A payment is initiated only  *)
(* while the clock of the model can still reach its stale cutoff.          *)
(***************************************************************************)
NextLive ==
    \/ Len(txns) < MaxPolled /\ now + StaleHours < MaxTime /\ InitiatePayment
    \/ Callback
    \/ check_mpesa_payment_status
    \/ cleanup_pending_payments
    \/ retry_failed_payments
    \/ \E cid \in Contribs : confirm_payment(cid)
    \/ Tick

SpecLive ==
    /\ Init /\ [][NextLive]_vars
    /\ WF_vars(Tick)
    /\ WF_vars(check_mpesa_payment_status)
    /\ WF_vars(cleanup_pending_payments)
    /\ WF_vars(retry_failed_payments)

(***************************************************************************)
(* Properties.                                                             *)
(***************************************************************************)
RECURSIVE SumCompletedUpTo(_, _)
SumCompletedUpTo(cid, n) ==
    IF n = 0 THEN 0
    ELSE SumCompletedUpTo(cid, n - 1)
         + (IF txns[n].contribution = cid /\ txns[n].status = "completed"
            THEN txns[n].amount ELSE 0)

SumCompleted(cid) == SumCompletedUpTo(cid, Len(txns))

\* The last operation processed a callback / a poll result for a row.
CallbackProcessed == last.op = "callback" /\ last.arg = "processed"

LastRow == txns[last.id]

LastContribution == contribs[txns[last.id].contribution]

\* C1: in every reachable state each contribution's amount_paid equals the
\* sum of the amounts of its completed transactions.
C1_AmountPaidIsCompletedSum ==
    \A c \in Contribs : contribs[c].amount_paid = SumCompleted(c)

\* C2: a success callback delivered right after the same success callback
\* for the same transaction leaves every transaction and every contribution
\* as the first delivery left them (amount_paid is not incremented again).
C2_SecondDeliveryChangesNothing ==
    [][(/\ CallbackProcessed /\ last.code = ResultSuccess
        /\ last'.op = "callback" /\ last'.arg = "processed"
        /\ last'.code = ResultSuccess /\ last'.id = last.id)
       => (txns' = txns /\ contribs' = contribs)]_vars

\* C3: when the callback handler and the status-check task have both run to
\* the end on the same transaction, both with a success result and both
\* having read it while it was pending, amount_paid is exactly one
\* transaction amount above its value before the two started.
C3_ExactlyOneIncrement ==
    \A a \in Workers, b \in Workers :
        (/\ wk[a].pc = "done" /\ wk[b].pc = "done"
         /\ wk[a].kind = "callback" /\ wk[b].kind = "poll"
         /\ wk[a].id = wk[b].id
         /\ wk[a].code = ResultSuccess /\ wk[b].code = ResultSuccess
         /\ wk[a].pre_status = "pending" /\ wk[b].pre_status = "pending")
        => contribs[Owner(wk[a].id)].amount_paid
               = wk[a].base + txns[wk[a].id].amount

\* C4: a callback, success or failure, for a transaction that is already
\* completed, failed or cancelled changes no transaction field and no
\* contribution's amount_paid.
C4_TerminalCallbackIsNoOp ==
    [][(/\ last'.op = "callback" /\ last'.arg = "processed"
        /\ last'.id \in TxnIds
        /\ txns[last'.id].status \in Terminal)
       => (/\ txns' = txns
           /\ \A c \in Contribs :
                 contribs'[c].amount_paid = contribs[c].amount_paid)]_vars

\* C5: a success callback for a pending transaction sets it completed, sets
\* processed_at, stores the receipt number as transaction_id and raises the
\* owning contribution's amount_paid by exactly the transaction's amount.
C5_SuccessCallbackCreditsOnce ==
    (CallbackProcessed /\ last.code = ResultSuccess /\ last.pre_status = "pending")
    => (/\ LastRow.status = "completed"
        /\ LastRow.processed_at = now
        /\ LastRow.transaction_id = Receipt
        /\ LastContribution.amount_paid = last.pre_paid + LastRow.amount)

C5_Witness ==
    /\ CallbackProcessed /\ last.code = ResultSuccess
    /\ last.pre_status = "pending"
    /\ LastRow.status = "completed" /\ LastRow.transaction_id = Receipt
    /\ LastContribution.amount_paid = last.pre_paid + LastRow.amount
    /\ LastRow.amount > 0

\* C6: after a callback or a poll completes a pending transaction of an
\* unconfirmed contribution, payment_status is paid when amount_paid >=
\* amount_required and partial when 0 < amount_paid < amount_required.
C6_StatusFollowsAmountPaid ==
    (/\ last.op \in {"callback", "poll"} /\ last.arg = "processed"
     /\ last.code = ResultSuccess /\ last.pre_status = "pending"
     /\ ~LastContribution.confirmed)
    => LastContribution.payment_status =
          (IF LastContribution.amount_paid >= LastContribution.amount_required
           THEN "paid" ELSE "partial")

\* C7: a callback with a nonzero result code for a pending transaction sets
\* it failed, sets processed_at and leaves amount_paid unchanged.
C7_FailureCallbackFails ==
    (CallbackProcessed /\ last.code # ResultSuccess /\ last.pre_status = "pending")
    => (/\ LastRow.status = "failed"
        /\ LastRow.processed_at = now
        /\ LastContribution.amount_paid = last.pre_paid)

C7_Witness ==
    /\ CallbackProcessed /\ last.code = ResultCancelled
    /\ last.pre_status = "pending"
    /\ LastRow.status = "failed" /\ LastRow.processed_at = now
    /\ LastContribution.amount_paid = last.pre_paid

\* C8: a still-pending poll result for a pending transaction leaves it
\* pending while the task has retries left (attempts 0, 1, 2); with the
\* retry budget used up the transaction becomes failed with external_status
\* "timeout"; amount_paid is unchanged throughout.
StillPendingResult ==
    /\ last.op = "poll" /\ last.pre_status = "pending"
    /\ last.arg \in {"retry", "timeout"}

C8_ExhaustedPollTimesOut ==
    StillPendingResult
    => (/\ LastContribution.amount_paid = last.pre_paid
        /\ IF last.n < max_retries
           THEN last.arg = "retry" /\ LastRow.status = "pending"
           ELSE /\ last.arg = "timeout"
                /\ LastRow.status = "failed"
                /\ LastRow.external_status = "timeout"
                /\ LastRow.processed_at = now)

C8_Witness ==
    /\ StillPendingResult /\ last.n = max_retries
    /\ last.code = ResultCancelled
    /\ LastRow.status = "failed" /\ LastRow.external_status = "timeout"
    /\ LastContribution.amount_paid = last.pre_paid

\* C9: a transport error in a status check that has retries left leaves the
\* transaction pending and queues the next check with the backoff countdown.
C9_TransportErrorIsRetried ==
    [][(last'.op = "poll" /\ last'.arg = "transport_error"
        /\ last'.n < max_retries)
       => LET next == Task(last'.id, last'.n + 1, RetryCountdown(last'.n))
          IN  /\ txns'[last'.id].status = "pending"
              /\ CopiesIn(next, queue') > CopiesIn(next, queue)]_vars

\* C10: for a request with an existing contribution, a valid phone and a
\* positive amount: an amount equal to amount_required - amount_paid passes
\* the view and reaches the gateway; an amount one unit above it is refused
\* with the exceeds-balance error, and no transaction and no status check
\* is created.
C10_BalanceBoundary ==
    [][(/\ last'.op = "initiate" /\ last'.cid \in Contribs
        /\ last'.phone = "valid" /\ last'.amt > 0)
       => LET c == contribs[last'.cid]
              balance == c.amount_required - c.amount_paid
          IN  /\ last'.amt = balance => last'.arg \in {"ok", "stk_failed"}
              /\ last'.amt = balance + 1 =>
                    /\ last'.arg = "exceeds_balance"
                    /\ txns' = txns /\ queue' = queue]_vars

C10_Witness ==
    /\ last.op = "initiate" /\ last.arg = "ok" /\ last.pre_paid > 0
    /\ last.amt = contribs[last.cid].amount_required - last.pre_paid
    /\ txns[last.id].status = "pending"

\* C11: whenever initiation answers the caller with an error (a refused
\* request, a gateway error, a failure while scheduling the status check),
\* every transaction that is pending afterwards existed before the call.
C11_ErrorCreatesNoPendingRow ==
    [][(last'.op = "initiate" /\ last'.arg # "ok")
       => \A i \in DOMAIN txns' :
             txns'[i].status = "pending" => i \in DOMAIN txns]_vars

\* C12: a successful initiation appends exactly one transaction, pending,
\* whose external_id is the checkout request id of the response, queues
\* exactly one status check for it (retries 0, countdown 120) and leaves
\* every contribution's amount_paid and every older transaction unchanged.
C12_InitiationCreatesOneRowOneCheck ==
    [][(last'.op = "initiate" /\ last'.arg = "ok")
       => /\ Len(txns') = Len(txns) + 1
          /\ last'.id = Len(txns')
          /\ \A i \in DOMAIN txns : txns'[i] = txns[i]
          /\ txns'[last'.id].status = "pending"
          /\ txns'[last'.id].external_id = last'.id
          /\ txns'[last'.id].contribution = last'.cid
          /\ txns'[last'.id].amount = last'.amt
          /\ queue' = queue (+) SetToBag({Task(last'.id, 0, InitialCountdown)})
          /\ BagCardinality(queue') = BagCardinality(queue) + 1
          /\ \A c \in Contribs :
                contribs'[c].amount_paid = contribs[c].amount_paid]_vars

C12_Witness ==
    /\ last.op = "initiate" /\ last.arg = "ok"
    /\ Len(txns) = MaxTxns /\ last.id = MaxTxns
    /\ txns[last.id].status = "pending"
    /\ CopiesIn(Task(last.id, 0, InitialCountdown), queue) = 1
    /\ contribs[last.cid].amount_paid = last.pre_paid

\* C13: every callback request whose body is valid JSON is answered with
\* HTTP 200 and the body {ResultCode: 0, ResultDesc: "Success"}, whatever
\* the outcome (unmatched id, failed payment, processing error); a body that
\* is not valid JSON is answered with HTTP 400 and ResultCode 1.
C13_WebhookAlwaysAcknowledges ==
    last.op = "callback"
    => LET r == mpesa_callback_response(last.arg)
       IN  IF last.arg = "invalid_json"
           THEN r.status = 400 /\ r.ResultCode = 1
           ELSE r.status = 200 /\ r.ResultCode = 0 /\ r.ResultDesc = "Success"

\* C14: a callback whose CheckoutRequestID is the external_id of no
\* mpesa_stk transaction leaves every transaction and every contribution
\* exactly as it was.
C14_UnmatchedCallbackChangesNothing ==
    [][(/\ last'.op = "callback" /\ last'.arg # "invalid_json"
        /\ \A i \in TxnIds : ~(/\ txns[i].external_id = last'.n
                               /\ txns[i].payment_method = "mpesa_stk"))
       => (txns' = txns /\ contribs' = contribs /\ last'.arg = "not_found")]_vars

C14_Witness ==
    /\ last.op = "callback" /\ last.arg = "not_found"
    /\ last.n = MaxTxns /\ Len(txns) = 1
    /\ txns[1].status = "pending"

\* C15: in every reachable state a transaction has processed_at set if and
\* only if its status is completed, failed or cancelled.
C15_ProcessedAtIffTerminal ==
    \A i \in TxnIds :
        (txns[i].processed_at # None) <=> (txns[i].status \in Terminal)

\* C16: for every provider result code the status-check task leaves a
\* pending transaction in the status the callback handler gives it for the
\* same code: completed for 0, failed for every other code.
C16_PollMapsCodesAsCallback ==
    [][(/\ last'.op = "poll"
        /\ last'.arg \in {"processed", "retry", "timeout"}
        /\ txns[last'.id].status = "pending")
       => txns'[last'.id].status =
             BranchFields("callback", last'.code, txns[last'.id], now).status]_vars

\* C17: the stale sweep sets to cancelled exactly the transactions that are
\* pending, of method mpesa_stk and created more than 24 hours ago; every
\* other transaction (terminal, of another method, younger) is left as it
\* was, no row is added, and no contribution's amount_paid changes.
C17_StaleSweepCancelsExactlyStale ==
    [][last'.op = "cleanup"
       => /\ DOMAIN txns' = DOMAIN txns
          /\ \A i \in DOMAIN txns :
                IF /\ txns[i].status = "pending"
                   /\ txns[i].payment_method = "mpesa_stk"
                   /\ now - txns[i].created_at > StaleHours
                THEN txns'[i] = [txns[i] EXCEPT !.status = "cancelled"]
                ELSE txns'[i] = txns[i]
          /\ \A c \in Contribs :
                contribs'[c].amount_paid = contribs[c].amount_paid]_vars

C17_Witness ==
    /\ last.op = "cleanup" /\ Len(txns) = MaxTxns
    /\ \E i \in TxnIds, j \in TxnIds :
          /\ txns[i].status = "cancelled" /\ txns[i].payment_method = "mpesa_stk"
          /\ now - txns[i].created_at > StaleHours
          /\ txns[j].status = "pending" /\ txns[j].payment_method = "manual"
          /\ now - txns[j].created_at > StaleHours

\* C18: a transaction that is not pending becomes pending only by the retry
\* sweep, and only if it was a failed mpesa_stk transaction with
\* external_status timeout or network_error whose failure is at most one
\* hour old; a status check is then queued for it. A completed transaction,
\* a cancelled one and one failed with external_status failed never become
\* pending.
C18_RetrySweepResetsOnlyTransient ==
    [][\A i \in DOMAIN txns :
          (txns[i].status # "pending" /\ txns'[i].status = "pending")
          => /\ last'.op = "retry_sweep"
             /\ txns[i].status = "failed"
             /\ txns[i].payment_method = "mpesa_stk"
             /\ txns[i].external_status \in {"timeout", "network_error"}
             /\ now - txns[i].processed_at <= RetryHours
             /\ CopiesIn(Task(i, 0, 0), queue') = CopiesIn(Task(i, 0, 0), queue) + 1]_vars

C18_Witness ==
    /\ last.op = "retry_sweep" /\ last.n = 1
    /\ \E i \in TxnIds :
          /\ txns[i].status = "pending" /\ txns[i].external_status = "retrying"
          /\ BagIn(Task(i, 0, 0), queue)
          /\ now - txns[i].processed_at <= RetryHours

\* C19: under fair execution of the clock, the status checks and the two
\* sweeps, from some point on every transaction is completed, failed or
\* cancelled and stays so.
C19_EventuallyTerminalForGood ==
    <>[](\A i \in TxnIds : txns[i].status \in Terminal)

C19_Witness ==
    /\ now > StaleHours
    /\ \E i \in TxnIds :
          /\ txns[i].status = "cancelled"
          /\ txns[i].external_status = "retrying"
          /\ now - txns[i].created_at > StaleHours

\* C20: phone normalization gives "254700000000" for "0700000000",
\* "+254700000000", "254700000000" and "700000000"; for every input the
\* result is the input's digits with one leading 0 replaced by 254, or with
\* 254 put in front when they do not start with 254, or unchanged when they
\* do.
RECURSIVE DigitsOf(_)
DigitsOf(str) ==
    IF str = <<>> THEN <<>>
    ELSE IF Head(str) \in Digits THEN <<Head(str)>> \o DigitsOf(Tail(str))
    ELSE DigitsOf(Tail(str))

ClaimedNormalization(str) ==
    LET d == DigitsOf(str)
    IN  IF d # <<>> /\ Head(d) = "0" THEN CountryCode \o Tail(d)
        ELSE IF Len(d) >= 3 /\ <<d[1], d[2], d[3]>> = CountryCode THEN d
        ELSE CountryCode \o d

C20_PhoneNormalization ==
    last.op = "format_phone_number"
    => /\ last.arg = ClaimedNormalization(last.phone)
       /\ last.phone \in TestPhones => last.arg = Bare254700

C20_Witness ==
    /\ last.op = "format_phone_number"
    /\ last.phone = Local0700
    /\ last.arg = Bare254700

\* C21: phone validation returns the normalized number exactly when the
\* normalized number is 12 characters long and starts with 254, and raises
\* otherwise ("123", "abc", "25470000000", "2547000000000" raise); a request
\* whose number is rejected is answered with an error of the view, and no
\* gateway call is made, no transaction and no status check is created.
C21_PhoneValidation ==
    [][/\ last'.op = "validate_phone_number"
          => LET f == ClaimedNormalization(last'.phone)
                 good == Len(f) = 12 /\ SubSeq(f, 1, 3) = CountryCode
             IN  /\ good => last'.arg = [raised |-> FALSE, value |-> f]
                 /\ ~good => last'.arg.raised
                 /\ last'.phone \in InvalidTestPhones => last'.arg.raised
       /\ (/\ last.op = "phone_number" /\ last'.op = "initiate"
           /\ last.phone # <<>>
           /\ validate_phone_number(last.phone).raised)
          => /\ last'.arg \in {"missing_fields", "not_found", "invalid_phone"}
             /\ txns' = txns /\ queue' = queue /\ contribs' = contribs]_vars

C21_Witness ==
    /\ last.op = "validate_phone_number"
    /\ last.phone = Long25470
    /\ last.arg.raised

\* C22: in every reachable state no two transactions carry the same
\* external_id, and every pending mpesa_stk transaction has a non-empty
\* external_id.
C22_ExternalIdIdentifiesOneRow ==
    /\ \A i \in TxnIds, j \in TxnIds :
          i # j => txns[i].external_id # txns[j].external_id
    /\ \A i \in TxnIds :
          (txns[i].status = "pending" /\ txns[i].payment_method = "mpesa_stk")
          => txns[i].external_id # NoReference

\* The status rule as a table: the first matching line gives the status.
ExpectedStatus(confirmed, paid, required, overdue) ==
    CASE confirmed -> "confirmed"
      [] ~confirmed /\ paid >= required -> "paid"
      [] ~confirmed /\ paid < required /\ paid > 0 -> "partial"
      [] ~confirmed /\ paid < required /\ paid <= 0 /\ overdue -> "overdue"
      [] OTHER -> "pending"

RECURSIVE SumCompletedIn(_, _, _)
SumCompletedIn(rows, cid, n) ==
    IF n = 0 THEN 0
    ELSE SumCompletedIn(rows, cid, n - 1)
         + (IF rows[n].contribution = cid /\ rows[n].status = "completed"
            THEN rows[n].amount ELSE 0)

\* C23: creating a transaction whose status is completed raises the owning
\* contribution's amount_paid by the transaction's amount and sets
\* payment_status by the status rule on the new amount_paid; creating one
\* in any other status leaves amount_paid unchanged.
C23_CreateHookCreditsCompleted ==
    [][last'.op = "create"
       => LET row == txns'[last'.id]
              c == contribs[row.contribution]
              d == contribs'[row.contribution]
          IN  /\ Len(txns') = Len(txns) + 1 /\ last'.id = Len(txns')
              /\ IF row.status = "completed"
                 THEN /\ d.amount_paid = c.amount_paid + row.amount
                      /\ d.payment_status =
                            ExpectedStatus(d.confirmed, d.amount_paid,
                                           d.amount_required, now > DueDate)
                 ELSE d.amount_paid = c.amount_paid]_vars

C23_Witness ==
    /\ last.op = "create" /\ last.arg = "completed"
    /\ last.amt = 1 /\ last.pre_paid = 0
    /\ contribs[last.cid].amount_paid = 1
    /\ contribs[last.cid].payment_status = "partial"

\* C24: saving a transaction that was completed and stays completed, with a
\* changed amount, changes the contribution's amount_paid by exactly the new
\* amount minus the old one; if amount_paid was the sum of the completed
\* amounts before, it is the sum of the completed amounts after.
C24_SaveHookAppliesDifference ==
    [][(/\ last'.op = "save"
        /\ txns[last'.id].status = "completed"
        /\ txns'[last'.id].status = "completed")
       => LET cid == txns[last'.id].contribution
          IN  /\ contribs'[cid].amount_paid =
                    contribs[cid].amount_paid
                    + txns'[last'.id].amount - txns[last'.id].amount
              /\ contribs[cid].amount_paid = SumCompletedIn(txns, cid, Len(txns))
                 => contribs'[cid].amount_paid
                       = SumCompletedIn(txns', cid, Len(txns'))]_vars

C24_Witness ==
    /\ last.op = "save" /\ last.pre_status = "completed"
    /\ txns[last.id].status = "completed"
    /\ last.pre_paid = 1 /\ txns[last.id].amount = AmountRequired
    /\ contribs[last.cid].amount_paid = AmountRequired
    /\ contribs[last.cid].amount_paid = SumCompleted(last.cid)

\* C25: update_payment_status gives confirmed to a manually confirmed
\* contribution; else paid when amount_paid >= amount_required; else
\* partial when amount_paid > 0; else overdue when the due date has passed;
\* else pending.
C25_StatusByFirstMatchingRule ==
    last.op = "update_payment"
    => LET c == contribs[last.cid]
       IN  c.payment_status =
              ExpectedStatus(c.confirmed, c.amount_paid, c.amount_required,
                             now > DueDate)

C25_Witness ==
    /\ last.op = "update_payment"
    /\ ~contribs[last.cid].confirmed
    /\ contribs[last.cid].amount_paid = 0
    /\ now > DueDate
    /\ contribs[last.cid].payment_status = "overdue"

\* C26: the first status check is queued with a delay of 120 s; a
\* still-pending result at attempt 0, 1, 2 queues follow-up checks of
\* attempt 1, 2, 3 with a delay of 60, 120, 240 s and ends the task (no
\* worker stays busy); at attempt 3 nothing is queued; no queued check ever
\* has an attempt number above 3.
BackoffDelays == <<60, 120, 240>>

Added(q1, q2) == {task \in BagToSet(q2) : CopiesIn(task, q2) > CopiesIn(task, q1)}

C26_BackoffSchedule ==
    [][/\ \A task \in BagToSet(queue') : task.retries <= 3
       /\ (last'.op = "initiate" /\ last'.arg = "ok")
          => Added(queue, queue') = {Task(last'.id, 0, 120)}
       /\ (last'.op = "poll" /\ last'.arg = "retry")
          => /\ last'.n \in 0..2
             /\ Added(queue, queue')
                   = {Task(last'.id, last'.n + 1, BackoffDelays[last'.n + 1])}
             /\ \A w \in DOMAIN wk' : wk'[w].pc = "idle"
       /\ (last'.op = "poll" /\ last'.arg = "timeout")
          => last'.n = 3 /\ Added(queue, queue') = {}]_vars

C26_Witness ==
    /\ last.op = "poll" /\ last.arg = "retry" /\ last.n = 2
    /\ BagIn(Task(last.id, 3, 240), queue)
    /\ txns[last.id].status = "pending"

\* C27: a status check that finds its transaction completed, failed or
\* cancelled ends without a follow-up check and without changing any
\* transaction or contribution: a check that runs after a success callback
\* does not credit amount_paid again.
C27_PollOnTerminalIsNoOp ==
    [][(/\ last'.op = "poll"
        /\ txns[last'.id].status \in {"completed", "failed", "cancelled"})
       => /\ last'.arg = "skipped"
          /\ txns' = txns /\ contribs' = contribs
          /\ Added(queue, queue') = {}
          /\ BagCardinality(queue') = BagCardinality(queue) - 1]_vars

C27_Witness ==
    /\ last.op = "poll" /\ last.arg = "skipped"
    /\ last.pre_status = "completed"
    /\ txns[last.id].external_status = "success"
    /\ contribs[last.cid].amount_paid = last.pre_paid
    /\ contribs[last.cid].amount_paid = txns[last.id].amount

\* C28: a still-pending result with retries left puts exactly one follow-up
\* check in the queue in place of the check that ran.
C28_OneFollowUpPerPendingResult ==
    [][(last'.op = "poll" /\ last'.arg = "retry")
       => LET next == Task(last'.id, last'.n + 1, RetryCountdown(last'.n))
          IN  /\ CopiesIn(next, queue') = CopiesIn(next, queue) + 1
              /\ BagCardinality(queue') = BagCardinality(queue)]_vars

\* C29: in every reachable state each contribution's amount_paid is at most
\* its amount_required. Stated for the states in which amount_paid is the
\* sum of the amounts of the completed transactions, so that only several
\* transactions in flight on one contribution can exceed amount_required.
C29_NeverOverpaid ==
    \A c \in Contribs :
        contribs[c].amount_paid = SumCompleted(c)
        => contribs[c].amount_paid <= contribs[c].amount_required

\* C30: when two workers have each completed a different pending
\* transaction of the same contribution with a success result, the
\* contribution's amount_paid is its value before the first of them started
\* plus both amounts.
C30_BothIncrementsKept ==
    \A a \in Workers, b \in Workers :
        (/\ wk[a].pc = "done" /\ wk[b].pc = "done"
         /\ wk[a].id # wk[b].id
         /\ Owner(wk[a].id) = Owner(wk[b].id)
         /\ wk[a].code = ResultSuccess /\ wk[b].code = ResultSuccess
         /\ wk[a].pre_status = "pending" /\ wk[b].pre_status = "pending"
         /\ wk[a].base <= wk[b].base)
        => contribs[Owner(wk[a].id)].amount_paid
               = wk[a].base + txns[wk[a].id].amount + txns[wk[b].id].amount

====
